---- MODULE Spec2Model ----
(***************************************************************************)
(* Model of the appointment watcher's check orchestration (src/index.js,   *)
(* final revision, lines 1-1214): the process-wide `state` object, the     *)
(* asynchronous runCheck sessions, cleanupResources, the two captcha       *)
(* strategies, the notification campaign, and the triggers (startup, cron, *)
(* /checknow, operator messages).                                          *)
(*                                                                         *)
(* Node runs one callback at a time.  Every action below is one such run:  *)
(* the completion of one awaited external operation (or the arrival of one *)
(* event), the synchronous code that follows it, and the continuations of  *)
(* the promises that code settles (the microtasks), each up to its next    *)
(* await of an external operation.  Outcomes of external operations are    *)
(* chosen with \E.                                                         *)
(***************************************************************************)
EXTENDS Integers, FiniteSets, Sequences, TLC

\* ---------------------------------------------------------------- bounds
MaxSessions == 3      \* sessions (runCheck invocations) a behaviour can hold
SpecSessions == 2     \* sessions started in Spec and the specifications built on it
MaxCheckNow == 1      \* /checknow commands explored
MaxInFlight == 2      \* sendAllNotifications calls in flight at once (SpecCampaign)
TickBudget == 2       \* ticks of one campaign explored by Spec
SessionInFlight == 1  \* sendAllNotifications calls in flight at once (Spec)
MaxCloseCalls == 2    \* close() calls counted per browser

\* ------------------------------------------------------ program constants
MAX_CAPTCHA_ATTEMPTS == 5
MAX_NOTIFICATIONS == 50
EMAIL_NOTIFICATION_FREQUENCY == 10
MAX_EMAIL_NOTIFICATIONS == 10
DEFAULT_WORKING_START_HOUR == 10
DEFAULT_WORKING_START_MINUTE == 0
DEFAULT_WORKING_END_HOUR == 1
DEFAULT_WORKING_END_MINUTE == 0

Null == 0
Sessions == 1..MaxSessions

VARIABLES
    state,            \* the `state` object (session fields)
    window,           \* the working-window fields of `state`
    timeReply,        \* the answer to the last /startat or /stopat
    heard,            \* what the captcha wait made of the last message
    intruded,         \* what a sender other than the operator sent last
    shutdown,         \* how far a /shutdown or a termination signal has got
    another,          \* how far a /another has got, and the session it met
    toggleSent,       \* how far the last /toggle_log has got, and the messages
                      \* it has sent
    enableAntiCaptcha,\* configuration: automated (TRUE) or manual captcha
    pc,               \* per session: the await runCheck is suspended at
    captchaAttempts,  \* per session: runCheck's local captchaAttempts
    aborted,          \* per session: signal.aborted of its AbortController
    abortListeners,   \* per session: "abort" listeners registered on its signal
    target,           \* per session: the page the pending page operation runs on
    browsers,         \* per launched browser: open/closed and close() calls
    pending,          \* cleanupResources calls suspended in `await browser.close()`
    captchaHandlers,  \* messageHandler listeners registered on the bot
    stopHandlers,     \* stopHandler listeners registered on the bot
    timers,           \* live setInterval timers (one per campaign)
    notificationCount,\* per campaign: closure variable notificationCount
    emailCount,       \* per campaign: closure variable emailCount
    inflight,         \* per campaign: sendAllNotifications calls in flight, by
                      \* the send they are suspended in
    checknow,         \* per /checknow command: where its handler is suspended
    startup,          \* has the startup function called startCheckProcess?
    resolveCalls,     \* per session: calls of solveCaptcha/getCaptchaFromUser
    alertedAfterCancel,\* per session: it initiated an operator-facing message
                      \* in a run that took a branch forced by cancellation
    cnVictim,         \* per /checknow: the session, not yet returned, that was
                      \* solving the captcha when the command arrived
    confirmations,    \* per campaign: confirmations sent for OKs during it
    report,           \* per session: operator messages delivered for the failure
                      \* (of an attempt, or terminal) it is reporting
    unconfirmed,      \* sessions that called notifyAvailable after an evaluation
                      \* that failed to execute
    sendFailed,       \* per campaign: a send of one of its ticks has failed
    mistaken,         \* sessions that called notifyAvailable on a month showing
                      \* the no-appointments text
    closeFailed       \* cleanupResources calls whose browser.close() has thrown

world == <<state, pc, captchaAttempts, aborted, abortListeners, target,
           browsers, pending, captchaHandlers, stopHandlers, timers,
           notificationCount, emailCount, inflight,
           resolveCalls, alertedAfterCancel, cnVictim, confirmations,
           report, unconfirmed, sendFailed, mistaken, closeFailed>>
\* What the operator's settings commands leave behind, the window apart.
commands == <<timeReply, heard, intruded, shutdown, another, toggleSent>>

vars == <<state, window, timeReply, heard, intruded, shutdown, another,
          toggleSent,
          enableAntiCaptcha, pc, captchaAttempts, aborted,
          abortListeners, target, browsers, pending, captchaHandlers,
          stopHandlers, timers, notificationCount, emailCount, inflight,
          checknow, startup, resolveCalls,
          alertedAfterCancel, cnVictim, confirmations, report, unconfirmed,
          sendFailed, mistaken, closeFailed>>

\* ------------------------------------------------------------ the world
\* The program state one run reads and writes, as one record R.  R.s is the
\* session whose code is running (Null in a handler that belongs to none);
\* R.micro is the queue of promise continuations still to run in this run;
\* R.msgs and R.obs note, per session, the operator-facing messages the run
\* initiated (safeSendMessage, console.warn and console.error; console.log is
\* forwarded only while logging is enabled, which it is not by default) and
\* whether it took a branch forced by cancellation.
World(s) ==
    [s |-> s, micro |-> <<>>,
     msgs |-> [x \in Sessions |-> 0], obs |-> [x \in Sessions |-> FALSE],
     state |-> state, pc |-> pc, captchaAttempts |-> captchaAttempts,
     aborted |-> aborted, abortListeners |-> abortListeners,
     target |-> target, browsers |-> browsers, pending |-> pending,
     captchaHandlers |-> captchaHandlers, stopHandlers |-> stopHandlers,
     timers |-> timers, notificationCount |-> notificationCount,
     emailCount |-> emailCount, inflight |-> inflight,
     resolveCalls |-> resolveCalls,
     alertedAfterCancel |-> alertedAfterCancel, cnVictim |-> cnVictim,
     confirmations |-> confirmations, report |-> report,
     unconfirmed |-> unconfirmed, sendFailed |-> sendFailed,
     mistaken |-> mistaken, closeFailed |-> closeFailed]

InitialState ==
    [isRunning |-> FALSE, isWaitingForCaptcha |-> FALSE,
     captchaMessageListener |-> Null, spamInterval |-> Null,
     browser |-> Null, page |-> Null, currentAbortController |-> Null,
     notifyAvailableResolver |-> Null, isLoggingEnabled |-> FALSE]

InitialWindow ==
    [workingStartHour |-> DEFAULT_WORKING_START_HOUR,
     workingStartMinute |-> DEFAULT_WORKING_START_MINUTE,
     workingEndHour |-> DEFAULT_WORKING_END_HOUR,
     workingEndMinute |-> DEFAULT_WORKING_END_MINUTE]

\* Times of day (minutes since midnight) the triggers are tried at.
Times == {0, 60, 599, 600}

\* A gate that knows no window across midnight.
isWithinSameDay(now) ==
    LET startMoment == window.workingStartHour * 60 + window.workingStartMinute
        endMoment == window.workingEndHour * 60 + window.workingEndMinute
    IN  now >= startMoment /\ now < endMoment

\* moment({hour, minute}) is today at hour:minute; moments compare as instants.
isWithinWorkingHours(now) ==
    LET startMoment == window.workingStartHour * 60 + window.workingStartMinute
        endMoment == window.workingEndHour * 60 + window.workingEndMinute
    IN  IF startMoment > endMoment
        THEN now >= startMoment \/ now < endMoment
        ELSE now >= startMoment /\ now < endMoment

\* ------------------------------------------------------ small steps
Say(R, n) == [R EXCEPT !.msgs[R.s] = @ + n]
\* n operator messages about the failure the session is reporting.
Report(R, n) == [Say(R, n) EXCEPT !.report[R.s] = @ + n]
Cancelled(R) == [R EXCEPT !.obs[R.s] = TRUE]
At(R, p) == [R EXCEPT !.pc[R.s] = p, !.target[R.s] = Null]

\* A page operation is started on state.page; a null page is a TypeError.
OnPage(R, p, onNull) ==
    IF R.state.page = Null THEN onNull
    ELSE [R EXCEPT !.pc[R.s] = p, !.target[R.s] = R.state.page]

\* A page operation can succeed only while its browser is open.
PageAlive(s) == target[s] # Null /\ browsers[target[s]].status = "open"

\* A promise is settled: the continuation of the session awaiting it is
\* queued.
Queue(R, c, k) == [R EXCEPT !.micro = Append(@, [s |-> c, k |-> k])]

\* A resolver that is never called.
callResolverNever(R) == R

\* state.notifyAvailableResolver is called if set, and cleared (lines
\* 353-356, 639-642, 1004-1007).
callResolver(R) ==
    IF R.state.notifyAvailableResolver = Null THEN R
    ELSE [Queue(R, R.state.notifyAvailableResolver, "campaign")
            EXCEPT !.state.notifyAvailableResolver = Null]

\* ------------------------------------------------------ cleanupResources
\* Lines 333-340: the code before `await state.browser.close()`.
cleanupHead(R) ==
    [R EXCEPT !.timers = @ \ {R.state.spamInterval},
              !.state.spamInterval = Null,
              !.captchaHandlers = @ \ {R.state.captchaMessageListener},
              !.state.captchaMessageListener = Null]

\* Lines 348-357: the code after the close (or after the skipped `if`).
cleanupTail(R) ==
    callResolver([R EXCEPT !.state.browser = Null,
                           !.state.page = Null,
                           !.state.isWaitingForCaptcha = FALSE,
                           !.state.isRunning = FALSE,
                           !.state.currentAbortController = Null])

\* browser.close() is called on the browser held in state.browser.
closeBrowser(R) ==
    [R EXCEPT !.browsers[R.state.browser] =
                  [status |-> "closed",
                   closeCalls |-> IF @.closeCalls < MaxCloseCalls
                                  THEN @.closeCalls + 1 ELSE @.closeCalls]]

\* One call of cleanupResources by invocation `inv`: runs to the end when no
\* browser is held, otherwise suspends in the close.
cleanupResources(R, inv) ==
    IF R.state.browser # Null
    THEN [closeBrowser(cleanupHead(R)) EXCEPT !.pending = @ \cup {inv}]
    ELSE cleanupTail(cleanupHead(R))


\* ------------------------------------------------- runCheck: its branches
\* runCheck's finally block (lines 928-931): the session ends when the
\* cleanup does.  The loop's counters are not read any more.
Finally(R) ==
    LET R1 == cleanupResources(
                  [R EXCEPT !.target[R.s] = Null,
                            !.captchaAttempts[R.s] = 0,
                            !.resolveCalls[R.s] = 0,
                            !.report[R.s] = 0,
                            !.unconfirmed = @ \ {R.s},
                            !.mistaken = @ \ {R.s}], <<"finally", R.s>>)
    IN  [R1 EXCEPT !.pc[R.s] = IF R.state.browser # Null
                               THEN "cleaning" ELSE "done"]

\* runCheck's catch block (lines 917-927): an error whose message includes
\* "aborted" is silent; any other is reported by two console.error calls and
\* one awaited safeSendMessage.
CatchAborted(R) == Finally(Cancelled(R))
CatchError(R) == At(Report([R EXCEPT !.report[R.s] = 0], 3), "errMsg")
\* Line 916 and the finally block.
Completed(R) == Finally(R)

\* A loop head that lets one more iteration in: `<=` in place of `<`.
LoopHeadLoose(R) ==
    IF R.captchaAttempts[R.s] <= MAX_CAPTCHA_ATTEMPTS
    THEN IF R.aborted[R.s] THEN CatchAborted(R)
         ELSE OnPage(R, "waitCaptcha", CatchError(R))
    ELSE CatchError(R)

\* The head of the captcha loop (lines 747-755) and the test after it
\* (lines 851-855).
LoopHead(R) ==
    IF R.captchaAttempts[R.s] < MAX_CAPTCHA_ATTEMPTS
    THEN IF R.aborted[R.s] THEN CatchAborted(R)
         ELSE OnPage(R, "waitCaptcha", CatchError(R))
    ELSE CatchError(R)

\* captchaAttempts++; continue (lines 782-783, 806-807, 841-843).
Retry(R) ==
    LoopHead([R EXCEPT !.captchaAttempts[R.s] = @ + 1, !.report[R.s] = 0])

\* runCheck's handler of a solveCaptcha failure (lines 774-783), after
\* solveCaptcha's own catch (lines 554-575): three operator messages.
automatedFailed(R) == At(Report(R, 3), "ac_failMsg")

\* runCheck's handler of a getCaptchaFromUser failure (lines 789-796).
manualFailed(R) == At(Report(R, 2), "mc_warn")

\* Lines 771-788: the resolver is called: solveCaptcha up to its createTask
\* request, or getCaptchaFromUser up to its waitForSelector.
StartResolve(R) ==
    LET R1 == [R EXCEPT !.resolveCalls[R.s] = @ + 1]
    IN  IF enableAntiCaptcha THEN At(R1, "ac_create")
        ELSE IF R1.state.page = Null THEN manualFailed(R1)
        ELSE [R1 EXCEPT !.state.isWaitingForCaptcha = TRUE,
                        !.pc[R.s] = "gc_wait", !.target[R.s] = R1.state.page]

\* Lines 811-815: after the resolver returned a text.
AfterSolved(R) ==
    IF R.aborted[R.s] THEN CatchAborted(R)
    ELSE OnPage(R, "type", CatchError(R))

\* getCaptchaFromUser.cleanupListener (lines 418-423), of the call of session c.
cleanupListener(R, c) ==
    [R EXCEPT !.captchaHandlers = @ \ {c},
              !.abortListeners[c] = @ \ {"captcha"},
              !.state.captchaMessageListener = Null,
              !.state.isWaitingForCaptcha = FALSE]

\* getCaptchaFromUser.messageHandler (lines 399-409) of the call of session
\* c, on an alphanumeric text of the operator.
messageHandler(R, c) == Queue(cleanupListener(R, c), c, "reply")

\* getCaptchaFromUser.abortHandler (lines 412-415) of the call of session c.
abortHandler(R, c) == Queue(cleanupListener(R, c), c, "reject")

\* notifyAvailable.stopNotifications (lines 633-644), of campaign c.
stopNotifications(R, c) ==
    callResolver([R EXCEPT !.timers = @ \ {R.state.spamInterval},
                           !.state.spamInterval = Null,
                           !.stopHandlers = @ \ {c}])

\* No sendAllNotifications call in flight.
NoCalls == [chat |-> 0, push |-> 0, email |-> 0]
Calls(f) == f.chat + f.push + f.email

\* sendAllNotifications up to its first await (lines 597-603): the chat
\* message of a new tick is on its way.
sendAllNotifications(R, c) == [R EXCEPT !.inflight[c].chat = @ + 1]

\* notifyAvailable (lines 584-665) as called by session R.s: with a campaign
\* already active it returns a resolved promise and runCheck goes on.
notifyAvailable(R) ==
    IF R.state.spamInterval # Null THEN Completed(R)
    ELSE LET c == R.s
             R1 == [R EXCEPT !.state.notifyAvailableResolver = c]
             R2 == sendAllNotifications(R1, c)
             R3 == [R2 EXCEPT !.state.spamInterval = c,
                              !.timers = @ \cup {c},
                              !.stopHandlers = @ \cup {c}]
         IN  At(R3, "escalate")

\* The evaluation `res` of checkForNoAppointments is what notifyAvailable is
\* about to be called on, the page showing the `month`.
Basis(R, res, month) ==
    LET R1 == IF res[2] > 0 THEN [R EXCEPT !.unconfirmed = @ \cup {R.s}] ELSE R
    IN  IF month = "booked" THEN [R1 EXCEPT !.mistaken = @ \cup {R.s}] ELSE R1

\* Lines 899-906: the catch of the next-month block, for any error that is
\* not an AbortError.
nextMonthFailed(R) == At(Say(R, 2), "nm_errMsg")

\* ------------------------------------------------- continuations
\* The continuation m of a settled promise runs: runCheck goes on after
\* `await notifyAvailable()` (lines 897, 913), with the operator's text
\* (line 811), or with the rejection of getCaptchaFromUser (line 789).
Continue(R, m) ==
    LET R1 == [R EXCEPT !.s = m.s]
        R2 == IF m.k = "campaign" /\ R.pc[m.s] = "escalate" THEN Completed(R1)
              ELSE IF m.k = "reply" /\ R.pc[m.s] = "gc_reply" THEN AfterSolved(R1)
              ELSE IF m.k = "reject" /\ R.pc[m.s] = "gc_reply"
              THEN manualFailed(Cancelled(R1))
              ELSE R1
    IN  [R2 EXCEPT !.s = R.s]

\* The microtask queue is run until it is empty.
RECURSIVE Drain(_)
Drain(R) ==
    IF R.micro = <<>> THEN R
    ELSE Drain(Continue([R EXCEPT !.micro = Tail(@)], Head(R.micro)))

\* What no code can reach any more is dropped: the locals and the signal of
\* a session that has returned; the closure of a campaign whose session has
\* returned, whose timer is cleared and whose calls have ended; the browser
\* object, once closed, of a session that has returned.
Collect(R) ==
    LET done == {c \in Sessions : R.pc[c] = "done"}
        dead == {c \in done : c \notin R.timers /\ R.inflight[c] = NoCalls}
        gone == {b \in done : R.browsers[b].status = "closed" /\ R.state.browser # b}
        Drop(f, S, v) == [x \in Sessions |-> IF x \in S THEN v ELSE f[x]]
    IN  [R EXCEPT
           !.captchaAttempts = Drop(@, done, 0),
           !.resolveCalls = Drop(@, done, 0),
           !.abortListeners = Drop(@, done, {}),
           !.target = Drop(@, done, Null),
           !.aborted = Drop(@, done, FALSE),
           !.alertedAfterCancel =
               [x \in Sessions |->
                   /\ x \notin done
                   /\ (@[x] \/ (R.obs[x] /\ R.msgs[x] > 0))],
           !.cnVictim = [k \in 1..MaxCheckNow |-> IF @[k] \in done THEN Null ELSE @[k]],
           !.notificationCount = Drop(@, dead, 0),
           !.emailCount = Drop(@, dead, 0),
           !.sendFailed = Drop(@, dead, FALSE),
           !.confirmations = Drop(@, done, 0),
           !.browsers = Drop(@, gone, [status |-> "none", closeCalls |-> 0])]

\* The run is committed.
Set(R) ==
    /\ state' = R.state
    /\ pc' = R.pc
    /\ captchaAttempts' = R.captchaAttempts
    /\ aborted' = R.aborted
    /\ abortListeners' = R.abortListeners
    /\ target' = R.target
    /\ browsers' = R.browsers
    /\ pending' = R.pending
    /\ captchaHandlers' = R.captchaHandlers
    /\ stopHandlers' = R.stopHandlers
    /\ timers' = R.timers
    /\ notificationCount' = R.notificationCount
    /\ emailCount' = R.emailCount
    /\ inflight' = R.inflight
    /\ resolveCalls' = R.resolveCalls
    /\ alertedAfterCancel' = R.alertedAfterCancel
    /\ cnVictim' = R.cnVictim
    /\ confirmations' = R.confirmations
    /\ report' = R.report
    /\ unconfirmed' = R.unconfirmed
    /\ sendFailed' = R.sendFailed
    /\ mistaken' = R.mistaken
    /\ closeFailed' = R.closeFailed

\* The world the run ends in is computed once, then committed.
Commit(R) ==
    \E W0 \in {R} : \E W1 \in {Drain(W0)} : \E W \in {Collect(W1)} : Set(W)

\* A run of session code, which leaves the triggers' own state alone.
Run(R) ==
    /\ Commit(R)
    /\ UNCHANGED <<window, commands, enableAntiCaptcha, checknow, startup>>

\* ------------------------------------------------------------ runCheck
\* Outcomes of awaited operations.  ok /\ PageAlive(s): the operation
\* succeeded, which it can only on a page whose browser is still open.

\* `await puppeteer.launch()` returns (line 710); newPage is called (line 714).
LaunchDone(s) ==
    /\ pc[s] = "launch"
    /\ \E ok \in BOOLEAN :
         Run(IF ok
             THEN At([World(s) EXCEPT
                        !.browsers[s] = [status |-> "open", closeCalls |-> 0],
                        !.state.browser = s], "newPage")
             ELSE CatchError(World(s)))

\* `await state.browser.newPage()` returns (line 714); setUserAgent and
\* setViewport are called (lines 715-718).
NewPageDone(s) ==
    /\ pc[s] = "newPage"
    /\ \E ok \in BOOLEAN :
         Run(IF ok /\ browsers[s].status = "open"
             THEN [World(s) EXCEPT !.state.page = s, !.pc[s] = "setup",
                                   !.target[s] = s]
             ELSE CatchError(World(s)))

\* setUserAgent and setViewport return (lines 715-718); the abort listener is
\* registered (lines 721-730; on a signal already aborted it never fires);
\* goto is called (line 734).
SetupDone(s) ==
    /\ pc[s] = "setup"
    /\ \E ok \in BOOLEAN :
         Run(IF ok /\ PageAlive(s)
             THEN LET R == [World(s) EXCEPT
                              !.abortListeners[s] =
                                  IF aborted[s] THEN @ ELSE @ \cup {"runCheck"}]
                  IN  OnPage(R, "goto", CatchError(R))
             ELSE CatchError(World(s)))

\* `await state.page.goto()` returns (lines 734-741); goto takes no signal.
GotoDone(s) ==
    /\ pc[s] = "goto"
    /\ \E ok \in BOOLEAN :
         Run(IF ok /\ PageAlive(s)
             THEN IF aborted[s] THEN CatchAborted(World(s)) ELSE LoopHead(World(s))
             ELSE CatchError(World(s)))

\* The loop's waitForSelector (with the signal) and $eval return (lines 752-767).
WaitCaptchaDone(s) ==
    /\ pc[s] = "waitCaptcha"
    /\ \E r \in {"found", "nodata", "fail"} :
         Run(IF aborted[s] THEN CatchAborted(World(s))
             ELSE IF r = "found" /\ PageAlive(s) THEN StartResolve(World(s))
             ELSE CatchError(World(s)))

\* ------------------------------------------------------------ solveCaptcha
\* The createTask request returns (lines 459-479); an aborted signal cancels it.
CreateTaskDone(s) ==
    /\ pc[s] = "ac_create"
    /\ \E ok \in BOOLEAN :
         Run(IF aborted[s] THEN automatedFailed(Cancelled(World(s)))
             ELSE IF ok THEN At(World(s), "ac_sleep")
             ELSE automatedFailed(World(s)))

\* The polling delay ends (lines 506-517); it does not look at the signal, the
\* getTaskResult request that follows does.
PollSleepDone(s) ==
    /\ pc[s] = "ac_sleep"
    /\ Run(IF aborted[s] THEN automatedFailed(Cancelled(World(s)))
           ELSE At(World(s), "ac_poll"))

\* The test of the polling loop (lines 483-504), `expired` telling whether
\* CAPTCHA_TIMEOUT_MS has elapsed.
PollHead(R, expired) ==
    IF expired THEN automatedFailed(R)
    ELSE IF R.aborted[R.s] THEN At(R, "ac_cancel")
    ELSE At(R, "ac_sleep")

\* A getTaskResult request returns (lines 510-545), or the request made on
\* abort does (lines 486-503).
PollDone(s) ==
    /\ pc[s] \in {"ac_poll", "ac_cancel"}
    /\ \E r \in {"notReady", "processing", "ready", "error"}, expired \in BOOLEAN :
         Run(IF pc[s] = "ac_cancel" \/ aborted[s]
             THEN automatedFailed(Cancelled(World(s)))
             ELSE IF r \in {"notReady", "processing"} THEN PollHead(World(s), expired)
             ELSE IF r = "ready" THEN AfterSolved(World(s))
             ELSE automatedFailed(World(s)))

\* The warning of lines 779-781 is sent; the loop goes on (lines 782-783).
AutomatedFailMsgDone(s) ==
    /\ pc[s] = "ac_failMsg"
    /\ Run(Retry(World(s)))

\* ------------------------------------------------------ getCaptchaFromUser
\* Its waitForSelector (with the signal) and $eval return (lines 374-394);
\* its catch (lines 430-438) resets the flag and reports any error but an
\* AbortError.
CaptchaElementDone(s) ==
    /\ pc[s] = "gc_wait"
    /\ \E ok \in BOOLEAN :
         LET R == [World(s) EXCEPT !.state.isWaitingForCaptcha = FALSE]
         IN  Run(IF aborted[s] THEN manualFailed(Cancelled(R))
                 ELSE IF ok /\ PageAlive(s) THEN At(World(s), "gc_photo")
                 ELSE manualFailed(Report(R, 1)))

\* safeSendPhoto returns (it takes no signal and never throws); the listeners
\* are registered (lines 397-429).  addEventListener on an aborted signal
\* registers a listener that never fires.
PhotoSent(s) ==
    /\ pc[s] = "gc_photo"
    /\ Run([World(s) EXCEPT
              !.captchaHandlers = @ \cup {s},
              !.abortListeners[s] = IF aborted[s] THEN @ ELSE @ \cup {"captcha"},
              !.state.captchaMessageListener = s,
              !.pc[s] = "gc_reply"])

\* The warning of lines 794-796 is sent; the page is reloaded (lines 798-805).
ManualWarnDone(s) ==
    /\ pc[s] = "mc_warn"
    /\ Run(IF state.page = Null THEN Retry(Say(World(s), 1))
           ELSE [World(s) EXCEPT !.pc[s] = "mc_reload", !.target[s] = state.page])

\* The reload returns; a failure is reported; the loop goes on (lines 799-807).
ReloadDone(s) ==
    /\ pc[s] = "mc_reload"
    /\ \E ok \in BOOLEAN :
         Run(IF ok /\ PageAlive(s) THEN Retry(World(s))
             ELSE Retry(Say(World(s), 1)))

\* ------------------------------------------------------ submit the text
\* page.type returns (line 815); Enter and waitForNavigation are started.
TypeDone(s) ==
    /\ pc[s] = "type"
    /\ \E ok \in BOOLEAN :
         Run(IF ok /\ PageAlive(s)
             THEN OnPage(World(s), "submit", CatchError(World(s)))
             ELSE CatchError(World(s)))

\* The submission returns (lines 816-832).
SubmitDone(s) ==
    /\ pc[s] = "submit"
    /\ \E ok \in BOOLEAN :
         Run(IF ok /\ PageAlive(s)
             THEN IF aborted[s] THEN CatchAborted(World(s))
                  ELSE OnPage(World(s), "checkWrong", CatchError(World(s)))
             ELSE CatchError(World(s)))

\* The wrong-captcha test returns (lines 829-859): a wrong text is reported,
\* an accepted one leaves the loop (its counters are not read any more) and
\* checkForNoAppointments is called.
CheckWrongDone(s) ==
    /\ pc[s] = "checkWrong"
    /\ \E r \in {"wrong", "accepted", "fail"} :
         Run(IF r = "fail" \/ ~PageAlive(s) THEN CatchError(World(s))
             ELSE IF r = "wrong" THEN At(Report(World(s), 1), "wrongMsg")
             ELSE LET R == [World(s) EXCEPT !.captchaAttempts[s] = 0,
                                            !.resolveCalls[s] = 0]
                  IN  OnPage(R, "eval1", CatchError(R)))

\* The message of lines 838-840 is sent; the loop goes on (lines 841-843).
WrongMsgDone(s) ==
    /\ pc[s] = "wrongMsg"
    /\ Run(Retry(World(s)))

\* ---------------------------------------------------------- evaluation
\* checkForNoAppointments (lines 673-694) returns TRUE when the page shows
\* the no-appointments text, FALSE when it does not, and FALSE after
\* reporting the error when the check could not be executed.
\* The month a page shows: "booked" with the no-appointments text on it,
\* "open" without.
Months == {"booked", "open"}

\* What reading the page gives: the text is found or not as the month has it,
\* or page.content() throws.
Readings(month) == {IF month = "booked" THEN "none" ELSE "available", "error"}

\* r: what the page check gave.  The result is <<noAppointments, messages>>.
checkForNoAppointments(s, r) ==
    IF r = "error" \/ ~PageAlive(s) THEN <<FALSE, 1>>
    ELSE <<r = "none", 0>>

\* The check of the current month returns (lines 859-871, 908-914).
EvalCurrentDone(s) ==
    /\ pc[s] = "eval1"
    /\ \E month \in Months : \E r \in Readings(month) :
         LET res == checkForNoAppointments(s, r)
             R == Say(World(s), res[2])
         IN  Run(IF aborted[s] THEN CatchAborted(R)
                 ELSE IF res[1] THEN OnPage(R, "nm_wait", nextMonthFailed(R))
                 ELSE notifyAvailable(Basis(R, res, month)))

\* The wait for the next-month button (with the signal) returns (lines
\* 868-873); the one-second delay and the click follow.
NextButtonDone(s) ==
    /\ pc[s] = "nm_wait"
    /\ \E ok \in BOOLEAN :
         Run(IF aborted[s] THEN CatchAborted(World(s))
             ELSE IF ok /\ PageAlive(s)
             THEN OnPage(World(s), "nm_click", nextMonthFailed(World(s)))
             ELSE nextMonthFailed(World(s)))

\* The click returns; waitForNetworkIdle (with the signal) is called (lines
\* 873-878).
ClickDone(s) ==
    /\ pc[s] = "nm_click"
    /\ \E ok \in BOOLEAN :
         Run(IF ok /\ PageAlive(s)
             THEN OnPage(World(s), "nm_idle", nextMonthFailed(World(s)))
             ELSE nextMonthFailed(World(s)))

\* waitForNetworkIdle returns (lines 874-884); the throw of line 882 is
\* caught by the next-month catch, as is that of checkForNoAppointments.
NetworkIdleDone(s) ==
    /\ pc[s] = "nm_idle"
    /\ \E ok \in BOOLEAN :
         Run(IF aborted[s] THEN CatchAborted(World(s))
             ELSE IF ok /\ PageAlive(s)
             THEN OnPage(World(s), "eval2", nextMonthFailed(World(s)))
             ELSE nextMonthFailed(World(s)))

\* The check of the next month returns (lines 884-898).  The Error thrown at
\* line 886 on an aborted signal is no AbortError: the catch of lines 899-906
\* reports it.
EvalNextDone(s) ==
    /\ pc[s] = "eval2"
    /\ \E month \in Months : \E r \in Readings(month) :
         LET res == checkForNoAppointments(s, r)
             R == Say(World(s), res[2])
         IN  Run(IF aborted[s] THEN nextMonthFailed(Cancelled(R))
                 ELSE IF res[1] THEN At(Say(R, 1), "nm_noneMsg")
                 ELSE notifyAvailable(Basis(R, res, month)))

\* The message of lines 890-892 or 904-906 is sent; the check completes.
NextMonthMsgDone(s) ==
    /\ pc[s] \in {"nm_noneMsg", "nm_errMsg"}
    /\ Run(Completed(World(s)))

\* The error message of lines 924-926 is sent; the finally block runs.
ErrorMsgDone(s) ==
    /\ pc[s] = "errMsg"
    /\ Run(Finally(World(s)))

\* A close whose error leaves cleanupResources: the call ends where it stands.
closeThrows(R, inv) == [R EXCEPT !.closeFailed = @ \cup {inv}]

\* browser.close() throws in the call `inv`: the catch of lines 344-346 logs
\* the error and the call goes on as after a close that worked.
closeCaught(R, inv) == cleanupTail([R EXCEPT !.closeFailed = @ \cup {inv}])

\* Lines 343-358, after the await.
closeReturned(R, inv, ok) ==
    IF ok THEN cleanupTail(R) ELSE closeCaught(R, inv)

\* The outcomes of a close: a behaviour in which every close works, and one
\* in which any close may throw.
Closes == {TRUE}
MayNotClose == BOOLEAN

\* `await state.browser.close()` returns in one call of cleanupResources
\* (lines 343-358), with one of `outcomes`; the call made by a finally block
\* ends its session.
CloseEnds(inv, outcomes) ==
    /\ inv \in pending
    /\ \E ok \in outcomes :
         LET R == closeReturned([World(Null) EXCEPT !.pending = @ \ {inv}],
                                inv, ok)
         IN  Run(IF inv[1] = "finally" THEN [R EXCEPT !.pc[inv[2]] = "done"]
                 ELSE R)

CloseDone(inv) == CloseEnds(inv, Closes)

\* ------------------------------------------------------------ campaign
\* The interval timer of campaign c fires (lines 650-653): one more
\* sendAllNotifications call starts.  `budget` bounds the ticks explored,
\* `flights` the calls in flight at once.
IntervalFires(c, budget, flights) ==
    /\ c \in timers
    /\ Calls(inflight[c]) < flights
    /\ notificationCount[c] + Calls(inflight[c]) < budget
    /\ Run(sendAllNotifications(World(Null), c))

\* The end of one sendAllNotifications call (lines 621-629).
finishTick(R, c) ==
    LET R1 == [R EXCEPT !.notificationCount[c] = @ + 1]
    IN  IF R1.notificationCount[c] >= MAX_NOTIFICATIONS
        THEN stopNotifications(R1, c) ELSE R1

\* An await of a sendAllNotifications call returns (lines 603-619): after
\* the chat message the push notification is sent; after the push, the email
\* is sent when the count asks for one; after the email, emailCount is
\* incremented.
tickSent(R, c, stage) ==
    IF stage = "chat"
    THEN [R EXCEPT !.inflight[c].chat = @ - 1, !.inflight[c].push = @ + 1]
    ELSE IF stage = "push"
    THEN IF (R.notificationCount[c] + 1) % EMAIL_NOTIFICATION_FREQUENCY = 0
            /\ R.emailCount[c] < MAX_EMAIL_NOTIFICATIONS
         THEN [R EXCEPT !.inflight[c].push = @ - 1, !.inflight[c].email = @ + 1]
         ELSE finishTick([R EXCEPT !.inflight[c].push = @ - 1], c)
    ELSE finishTick([R EXCEPT !.inflight[c].email = @ - 1,
                              !.emailCount[c] = @ + 1], c)

\* A send that throws out of its helper: the sendAllNotifications call is
\* abandoned where it stands.
sendThrows(R, c, stage) ==
    [R EXCEPT !.sendFailed[c] = TRUE, !.inflight[c][stage] = @ - 1]

\* The send of a stage fails: safeSendMessage, sendPushNotification and
\* sendEmailNotification catch the error and log it (lines 236-241, 306-325,
\* 277-279), and the call goes on as after a send that worked.
sendCaught(R, c, stage) == tickSent([R EXCEPT !.sendFailed[c] = TRUE], c, stage)

tickStep(R, c, stage, ok) ==
    IF ok THEN tickSent(R, c, stage) ELSE sendCaught(R, c, stage)

\* The outcomes of a send: a behaviour in which every send works, and one in
\* which any send may fail.
Delivered == {TRUE}
Unreliable == BOOLEAN

\* An awaited send of campaign c ends, with one of `outcomes`.
TickStep(c, outcomes) ==
    \E stage \in {"chat", "push", "email"}, ok \in outcomes :
        /\ inflight[c][stage] > 0
        /\ Run(tickStep(World(Null), c, stage, ok))

\* ------------------------------------------------------------ triggers
FreeSessions == {s \in Sessions : pc[s] = "idle"}
NewSession == CHOOSE s \in FreeSessions : \A t \in FreeSessions : s <= t

\* A startCheckProcess that asks no gate.
StartsUngated(bypassTimeCheck, now) == ~state.isRunning

\* Would startCheckProcess start a session?
Starts(bypassTimeCheck, now) ==
    ~state.isRunning /\ (bypassTimeCheck \/ isWithinWorkingHours(now))

\* A start that stores no AbortController.
startUncontrolled(R, bypassTimeCheck, now) ==
    IF ~Starts(bypassTimeCheck, now) THEN R
    ELSE [R EXCEPT !.state.isRunning = TRUE,
                   !.pc[NewSession] = "launch"]

\* startCheckProcess (lines 940-974) with runCheck up to its first await
\* (lines 703-710): a busy flag or a closed gate makes it return; otherwise a
\* new AbortController is stored, isRunning is set and the launch begins.
startCheckProcess(R, bypassTimeCheck, now) ==
    IF ~Starts(bypassTimeCheck, now) THEN R
    ELSE [R EXCEPT !.state.currentAbortController = NewSession,
                   !.state.isRunning = TRUE,
                   !.pc[NewSession] = "launch"]

\* The startup function (lines 1159-1193), its message sent, calls
\* startCheckProcess(false).
Startup ==
    /\ ~startup
    /\ startup' = TRUE
    /\ \E now \in Times :
         /\ Starts(FALSE, now) => FreeSessions # {}
         /\ Commit(startCheckProcess(World(Null), FALSE, now))
    /\ UNCHANGED <<window, commands, enableAntiCaptcha, checknow>>

\* The cron callback (lines 1119-1156).
CronTick ==
    /\ startup
    /\ \E now \in Times :
         IF isWithinWorkingHours(now) /\ ~state.isRunning
            /\ ~(~enableAntiCaptcha /\ state.isWaitingForCaptcha)
         THEN /\ FreeSessions # {}
              /\ Commit(startCheckProcess(World(Null), FALSE, now))
         ELSE UNCHANGED world
    /\ UNCHANGED <<window, commands, enableAntiCaptcha, checknow, startup>>

\* ------------------------------------------------------------ /checknow
\* The pcs of the captcha loop (lines 747-848).
CaptchaPCs ==
    {"waitCaptcha", "ac_create", "ac_sleep", "ac_poll", "ac_cancel",
     "ac_failMsg", "gc_wait", "gc_photo", "gc_reply", "mc_warn", "mc_reload",
     "type", "submit", "checkWrong", "wrongMsg"}

\* The reset of lines 996-1009.
checknowReset(R) ==
    callResolver([R EXCEPT !.state.isRunning = FALSE,
                           !.state.isWaitingForCaptcha = FALSE,
                           !.timers = @ \ {R.state.spamInterval},
                           !.state.spamInterval = Null,
                           !.captchaHandlers = @ \ {R.state.captchaMessageListener},
                           !.state.captchaMessageListener = Null])

\* /checknow arrives from the operator (lines 977-987, 996-1013): with a check
\* running it sends a message first; otherwise it resets and announces.
CheckNowReceived(k) ==
    /\ startup
    /\ checknow[k] = "idle"
    /\ IF state.isRunning
       THEN /\ checknow' = [checknow EXCEPT ![k] = "abortMsg"]
            /\ LET a == state.currentAbortController
               IN  Commit(IF a # Null /\ pc[a] \in CaptchaPCs
                          THEN [World(Null) EXCEPT !.cnVictim[k] = a]
                          ELSE World(Null))
       ELSE /\ checknow' = [checknow EXCEPT ![k] = "startMsg"]
            /\ Commit(checknowReset(World(Null)))
    /\ UNCHANGED <<window, commands, enableAntiCaptcha, startup>>

\* AbortController.abort() of session a (line 989): the signal's listeners
\* run in the order they were registered: runCheck's (lines 721-730), which
\* calls cleanupResources, then getCaptchaFromUser's abortHandler.
abort(R, a) ==
    LET R0 == [R EXCEPT !.aborted[a] = TRUE]
        R1 == IF "runCheck" \in R.abortListeners[a]
              THEN cleanupResources(R0, <<"abort", a>>) ELSE R0
        R2 == IF "captcha" \in R.abortListeners[a] THEN abortHandler(R1, a) ELSE R1
    IN  [R2 EXCEPT !.abortListeners[a] = {}]

\* The message of lines 985-987 is sent; the active controller is aborted and
\* the two-second timer started (lines 988-992).
CheckNowAbort(k) ==
    /\ checknow[k] = "abortMsg"
    /\ checknow' = [checknow EXCEPT ![k] = "grace"]
    /\ LET a == state.currentAbortController
       IN  IF a # Null /\ ~aborted[a]
           THEN Commit(abort(World(Null), a))
           ELSE UNCHANGED world
    /\ UNCHANGED <<window, commands, enableAntiCaptcha, startup>>

\* The two-second timer fires (lines 992-1013): reset, then the announcement.
CheckNowGraceOver(k) ==
    /\ checknow[k] = "grace"
    /\ checknow' = [checknow EXCEPT ![k] = "startMsg"]
    /\ Commit(checknowReset(World(Null)))
    /\ UNCHANGED <<window, commands, enableAntiCaptcha, startup>>

\* The announcement is sent; startCheckProcess(true) is called (line 1014).
CheckNowStart(k) ==
    /\ checknow[k] = "startMsg"
    /\ checknow' = [checknow EXCEPT ![k] = "done"]
    /\ Starts(TRUE, 0) => FreeSessions # {}
    /\ Commit(startCheckProcess(World(Null), TRUE, 0))
    /\ UNCHANGED <<window, commands, enableAntiCaptcha, startup>>

\* ---------------------------------------------------- operator messages
\* The messageHandler of every registered getCaptchaFromUser call runs.
RECURSIVE messageHandlers(_, _)
messageHandlers(R, H) ==
    IF H = {} THEN R
    ELSE LET c == CHOOSE x \in H : \A y \in H : x <= y
         IN  messageHandlers(messageHandler(R, c), H \ {c})

\* notifyAvailable.stopHandler (lines 656-662) of every registered campaign
\* runs, on an OK of the operator: each sends one confirmation (line 658),
\* counted for the campaign `a` active when the OK arrived, and calls
\* stopNotifications.
RECURSIVE stopHandlersRun(_, _, _)
stopHandlersRun(R, H, a) ==
    IF H = {} THEN R
    ELSE LET c == CHOOSE x \in H : \A y \in H : x <= y
             R1 == IF a = Null THEN R ELSE [R EXCEPT !.confirmations[a] = @ + 1]
         IN  stopHandlersRun(stopNotifications(R1, c), H \ {c}, a)

\* The operator sends an alphanumeric text other than OK.
OperatorReply ==
    /\ captchaHandlers # {}
    /\ Run(messageHandlers(World(Null), captchaHandlers))

\* The operator sends OK: alphanumeric too, so both kinds of listener run.
OperatorOK ==
    /\ captchaHandlers # {} \/ stopHandlers # {}
    /\ Run(stopHandlersRun(messageHandlers(World(Null), captchaHandlers),
                           stopHandlers, state.spamInterval))

\* ------------------------------------------------------- any message
\* A message is its sender (the chat of CHAT_ID or another one) and its text:
\* a string over a lower-case letter, an upper-case letter, a digit, a sign
\* and a blank; the empty one stands for a message without text.
Senders == {"operator", "foreign"}
Chars == {"o", "K", "7", "/", " "}
MaxText == 3
Texts == UNION {[1..n -> Chars] : n \in 0..MaxText}

\* String.prototype.trim.
RECURSIVE trim(_)
trim(t) ==
    IF t = <<>> THEN t
    ELSE IF Head(t) = " " THEN trim(Tail(t))
    ELSE IF t[Len(t)] = " " THEN trim(SubSeq(t, 1, Len(t) - 1))
    ELSE t

\* The texts the chat service delivers carry no blank at either end.
Incoming == {t \in Texts : trim(t) = t}

\* /^[0-9A-Za-z]+$/.test(t)
alphanumeric(t) == t # <<>> /\ \A i \in 1..Len(t) : t[i] \in {"o", "K", "7"}

\* A test that takes the text whoever sent it.
fromAnyone(sender, text) == text # <<>> /\ alphanumeric(trim(text))

\* The test of messageHandler (lines 401-405).
isCaptchaText(sender, text) ==
    sender = "operator" /\ text # <<>> /\ alphanumeric(trim(text))

\* String.prototype.toUpperCase.
toUpperCase(t) == [i \in 1..Len(t) |-> IF t[i] = "o" THEN "O" ELSE t[i]]

\* The test of stopHandler (line 657).
isOK(sender, text) ==
    sender = "operator" /\ text # <<>> /\ toUpperCase(text) = <<"O", "K">>

\* The "message" listeners run on a message, in the order of the program:
\* those of the captcha waits, then those of the campaigns.
onMessage(R, sender, text) ==
    LET R1 == IF isCaptchaText(sender, text)
              THEN messageHandlers(R, R.captchaHandlers) ELSE R
    IN  IF isOK(sender, text)
        THEN stopHandlersRun(R1, R1.stopHandlers, R.state.spamInterval)
        ELSE R1

\* A message arrives.
Message(sender, text) ==
    /\ Commit(onMessage(World(Null), sender, text))
    /\ heard' = IF captchaHandlers = {} THEN "idle"
                ELSE IF isCaptchaText(sender, text) THEN "answer"
                ELSE "ignored"
    /\ intruded' = IF sender = "operator" THEN intruded ELSE "message"
    /\ UNCHANGED <<window, timeReply, shutdown, another, toggleSent, enableAntiCaptcha,
                   checknow, startup>>

\* ------------------------------------------------------------ shutdown
\* The call of cleanupResources made by a shutdown.
ShutdownCall == <<"shutdown", 0>>

\* /shutdown arrives from the operator (lines 1097-1103): its message is sent.
ShutdownReceived ==
    /\ shutdown = "none"
    /\ shutdown' = "msg"
    /\ UNCHANGED <<world, window, timeReply, heard, intruded, another, toggleSent, enableAntiCaptcha,
                   checknow, startup>>

\* The cleanup of a shutdown is called; with no browser held it runs to its
\* end and the process exits (lines 1106-1112, 1203-1204), otherwise it
\* suspends in the close.
shutdownCleanup(R) ==
    /\ Commit(cleanupResources(R, ShutdownCall))
    /\ shutdown' = IF R.state.browser # Null THEN "cleaning" ELSE "exited"
    /\ UNCHANGED <<window, timeReply, heard, intruded, another, toggleSent, enableAntiCaptcha,
                   checknow, startup>>

\* The message of /shutdown is sent; cleanupResources is called (line 1106).
ShutdownMsgDone ==
    /\ shutdown = "msg"
    /\ shutdownCleanup(World(Null))

\* SIGINT or SIGTERM (lines 1198-1214): the current controller, if any, is
\* aborted, then cleanupResources is called.
SignalReceived ==
    /\ shutdown = "none"
    /\ LET a == state.currentAbortController
       IN  shutdownCleanup(IF a # Null /\ ~aborted[a]
                           THEN abort(World(Null), a) ELSE World(Null))

\* The close awaited by the cleanup of a shutdown returns; polling is stopped
\* and the process exits (lines 1109-1112, 1204).
ShutdownCloseDone ==
    /\ shutdown = "cleaning"
    /\ ShutdownCall \in pending
    /\ shutdown' = "exited"
    /\ Commit(cleanupTail([World(Null) EXCEPT !.pending = @ \ {ShutdownCall}]))
    /\ UNCHANGED <<window, timeReply, heard, intruded, another, toggleSent, enableAntiCaptcha,
                   checknow, startup>>

\* ------------------------------------------------------------ /another
\* The handler of the earlier revision of the program (lines 2090-2134),
\* whose cleanupResources (lines 1418-1446), getCaptchaFromUser (lines
\* 1455-1527) and abort listener of runCheck (lines 1807-1817) are those of
\* lines 331-359, 368-439 and 720-730.

\* /another arrives (lines 2090-2103): with no check running or no page it is
\* refused; otherwise its first message is sent.
AnotherReceived ==
    /\ another[1] = "none"
    /\ another' = IF ~state.isRunning \/ state.page = Null
                  THEN another
                  ELSE <<"msg", state.currentAbortController>>
    /\ UNCHANGED <<world, window, timeReply, heard, intruded, shutdown,
                   toggleSent, enableAntiCaptcha, checknow, startup>>

\* The first message is sent (lines 2105-2115): the current controller is
\* aborted and replaced by a new one, which no session listens to and which
\* every reader of state.currentAbortController treats as it treats none;
\* then the page is reloaded, or the TypeError of a null page is reported.
AnotherMsgDone ==
    /\ another[1] = "msg"
    /\ LET a == state.currentAbortController
           R == IF a # Null /\ ~aborted[a] THEN abort(World(Null), a)
                ELSE World(Null)
       IN  /\ Commit([R EXCEPT !.state.currentAbortController =
                                   IF a # Null THEN Null ELSE @])
           /\ another' = <<IF state.page # Null THEN "reload" ELSE "done",
                           IF another[2] # Null THEN another[2] ELSE a>>
    /\ UNCHANGED <<window, timeReply, heard, intruded, shutdown, toggleSent, enableAntiCaptcha,
                   checknow, startup>>

\* The reload returns or throws (lines 2115-2133); a message follows either.
AnotherReloadDone ==
    /\ another[1] = "reload"
    /\ another' = <<"done", another[2]>>
    /\ UNCHANGED <<world, window, timeReply, heard, intruded, shutdown,
                   toggleSent, enableAntiCaptcha, checknow, startup>>

\* ------------------------------------------------------------ logging
\* A console that forwards every line.
consoleForwardsAll(st, level) == TRUE

\* The console overrides (lines 118-152): is a line of this level sent to the
\* operator?  Warnings and errors always; a routine line with logging
\* enabled, outside a captcha wait and outside a campaign.
consoleForwards(st, level) ==
    IF level = "log"
    THEN st.isLoggingEnabled /\ ~st.isWaitingForCaptcha /\ st.spamInterval = Null
    ELSE TRUE

\* /toggle_log arrives (lines 1085-1092): the toggle is flipped and the
\* answer is sent.
ToggleReceived ==
    /\ toggleSent[1] # "msg"
    /\ toggleSent' = <<"msg", 1>>
    /\ Commit([World(Null) EXCEPT !.state.isLoggingEnabled = ~@])
    /\ UNCHANGED <<window, timeReply, heard, intruded, shutdown, another,
                   enableAntiCaptcha, checknow, startup>>

\* The answer is sent; the routine line of line 1093 is logged.
ToggleMsgDone ==
    /\ toggleSent[1] = "msg"
    /\ toggleSent' = <<"done", IF consoleForwards(state, "log") THEN 2 ELSE 1>>
    /\ UNCHANGED <<world, window, timeReply, heard, intruded, shutdown, another,
                   enableAntiCaptcha, checknow, startup>>

\* ------------------------------------------------------------ behaviours
Init ==
    /\ state = InitialState
    /\ window = InitialWindow
    /\ timeReply = "none"
    /\ heard = "idle"
    /\ intruded = "none"
    /\ shutdown = "none"
    /\ another = <<"none", Null>>
    /\ toggleSent = <<"none", 0>>
    /\ enableAntiCaptcha \in BOOLEAN
    /\ pc = [s \in Sessions |-> IF s <= SpecSessions THEN "idle" ELSE "done"]
    /\ captchaAttempts = [s \in Sessions |-> 0]
    /\ aborted = [s \in Sessions |-> FALSE]
    /\ abortListeners = [s \in Sessions |-> {}]
    /\ target = [s \in Sessions |-> Null]
    /\ browsers = [s \in Sessions |-> [status |-> "none", closeCalls |-> 0]]
    /\ pending = {}
    /\ captchaHandlers = {}
    /\ stopHandlers = {}
    /\ timers = {}
    /\ notificationCount = [s \in Sessions |-> 0]
    /\ emailCount = [s \in Sessions |-> 0]
    /\ inflight = [s \in Sessions |-> NoCalls]
    /\ checknow = [k \in 1..MaxCheckNow |-> "idle"]
    /\ startup = FALSE
    /\ resolveCalls = [s \in Sessions |-> 0]
    /\ alertedAfterCancel = [s \in Sessions |-> FALSE]
    /\ cnVictim = [k \in 1..MaxCheckNow |-> Null]
    /\ confirmations = [s \in Sessions |-> 0]
    /\ report = [s \in Sessions |-> 0]
    /\ unconfirmed = {}
    /\ sendFailed = [s \in Sessions |-> FALSE]
    /\ mistaken = {}
    /\ closeFailed = {}

Next ==
    \/ Startup
    \/ CronTick
    \/ \E k \in 1..MaxCheckNow : CheckNowReceived(k)
    \/ \E k \in 1..MaxCheckNow : CheckNowAbort(k)
    \/ \E k \in 1..MaxCheckNow : CheckNowGraceOver(k)
    \/ \E k \in 1..MaxCheckNow : CheckNowStart(k)
    \/ OperatorReply
    \/ OperatorOK
    \/ \E s \in Sessions : LaunchDone(s)
    \/ \E s \in Sessions : NewPageDone(s)
    \/ \E s \in Sessions : SetupDone(s)
    \/ \E s \in Sessions : GotoDone(s)
    \/ \E s \in Sessions : WaitCaptchaDone(s)
    \/ \E s \in Sessions : CreateTaskDone(s)
    \/ \E s \in Sessions : PollSleepDone(s)
    \/ \E s \in Sessions : PollDone(s)
    \/ \E s \in Sessions : AutomatedFailMsgDone(s)
    \/ \E s \in Sessions : CaptchaElementDone(s)
    \/ \E s \in Sessions : PhotoSent(s)
    \/ \E s \in Sessions : ManualWarnDone(s)
    \/ \E s \in Sessions : ReloadDone(s)
    \/ \E s \in Sessions : TypeDone(s)
    \/ \E s \in Sessions : SubmitDone(s)
    \/ \E s \in Sessions : CheckWrongDone(s)
    \/ \E s \in Sessions : WrongMsgDone(s)
    \/ \E s \in Sessions : EvalCurrentDone(s)
    \/ \E s \in Sessions : NextButtonDone(s)
    \/ \E s \in Sessions : ClickDone(s)
    \/ \E s \in Sessions : NetworkIdleDone(s)
    \/ \E s \in Sessions : EvalNextDone(s)
    \/ \E s \in Sessions : NextMonthMsgDone(s)
    \/ \E s \in Sessions : ErrorMsgDone(s)
    \/ \E inv \in pending : CloseDone(inv)
    \/ \E c \in Sessions : IntervalFires(c, TickBudget, SessionInFlight)
    \/ \E c \in Sessions : TickStep(c, Delivered)

Spec == Init /\ [][Next]_vars

\* ------------------------------------------------ the working window
\* Hours and minutes the operator sets the window to; the commands' patterns
\* (\d{1,2}):(\d{2}) also let through an hour above 23 and a minute above 59.
WindowHours == {0, 1, 6, 10, 22, 23}
WindowMinutes == {0, 30, 59}
HourInputs == WindowHours \cup {24}
MinuteInputs == WindowMinutes \cup {60}

\* Every time of day, in minutes since midnight.
Clock == 0 .. (24 * 60 - 1)

\* A range check that lets 24:00 through.
ValidTimeLoose(hour, minute) ==
    ~(hour < 0 \/ hour > 24 \/ minute < 0 \/ minute > 59)

\* The range check of /startat and /stopat (lines 1024, 1058).
ValidTime(hour, minute) == ~(hour < 0 \/ hour > 23 \/ minute < 0 \/ minute > 59)

\* /startat HH:MM (lines 1018-1049): an invalid time is answered and dropped,
\* a valid one becomes the start of the window.
StartAt(hour, minute) ==
    /\ window' = IF ValidTime(hour, minute)
                 THEN [window EXCEPT !.workingStartHour = hour,
                                     !.workingStartMinute = minute]
                 ELSE window
    /\ timeReply' = IF ValidTime(hour, minute) THEN "set" ELSE "invalid"
    /\ UNCHANGED <<world, heard, intruded, shutdown, another, toggleSent, enableAntiCaptcha, checknow,
                   startup>>

\* /stopat HH:MM (lines 1052-1082), likewise for the end of the window.
StopAt(hour, minute) ==
    /\ window' = IF ValidTime(hour, minute)
                 THEN [window EXCEPT !.workingEndHour = hour,
                                     !.workingEndMinute = minute]
                 ELSE window
    /\ timeReply' = IF ValidTime(hour, minute) THEN "set" ELSE "invalid"
    /\ UNCHANGED <<world, heard, intruded, shutdown, another, toggleSent, enableAntiCaptcha, checknow,
                   startup>>

\* The operator moves the window while the startup check and the cron ticks
\* ask the gate.
NextWindow ==
    \/ \E hour \in HourInputs, minute \in MinuteInputs : StartAt(hour, minute)
    \/ \E hour \in HourInputs, minute \in MinuteInputs : StopAt(hour, minute)
    \/ Startup
    \/ CronTick

SpecWindow == Init /\ [][NextWindow]_vars

\* ------------------------------------------------------------ the gate
\* The triggers of a session under a window the operator moves: the startup
\* check, the cron ticks and /checknow.
NextGate ==
    \/ \E hour \in HourInputs, minute \in MinuteInputs : StartAt(hour, minute)
    \/ \E hour \in HourInputs, minute \in MinuteInputs : StopAt(hour, minute)
    \/ Startup
    \/ CronTick
    \/ \E k \in 1..MaxCheckNow : CheckNowReceived(k)
    \/ \E k \in 1..MaxCheckNow : CheckNowAbort(k)
    \/ \E k \in 1..MaxCheckNow : CheckNowGraceOver(k)
    \/ \E k \in 1..MaxCheckNow : CheckNowStart(k)

SpecGate == Init /\ [][NextGate]_vars

\* ------------------------------------------- manual captcha, progress
\* The program configured for manual captcha resolution
\* (ANTI_CAPTCHA_API_KEY unset, line 64): solveCaptcha is never called.
InitManual == Init /\ ~enableAntiCaptcha

\* The awaited operation of session s returns.
SessionStep(s) ==
    \/ LaunchDone(s) \/ NewPageDone(s) \/ SetupDone(s) \/ GotoDone(s)
    \/ WaitCaptchaDone(s) \/ CaptchaElementDone(s) \/ PhotoSent(s)
    \/ ManualWarnDone(s) \/ ReloadDone(s) \/ TypeDone(s) \/ SubmitDone(s)
    \/ CheckWrongDone(s) \/ WrongMsgDone(s) \/ EvalCurrentDone(s)
    \/ NextButtonDone(s) \/ ClickDone(s) \/ NetworkIdleDone(s)
    \/ EvalNextDone(s) \/ NextMonthMsgDone(s) \/ ErrorMsgDone(s)

\* The /checknow handler k goes on after its await.
CheckNowStep(k) == CheckNowAbort(k) \/ CheckNowGraceOver(k) \/ CheckNowStart(k)

\* One of the operations the program is awaiting returns, or one of its
\* timers fires.
Progress ==
    \/ \E s \in Sessions : SessionStep(s)
    \/ \E inv \in pending : CloseDone(inv)
    \/ \E c \in Sessions : IntervalFires(c, TickBudget, SessionInFlight)
    \/ \E c \in Sessions : TickStep(c, Delivered)
    \/ \E k \in 1..MaxCheckNow : CheckNowStep(k)

\* What the operator and the clock do.
Environment ==
    \/ Startup
    \/ CronTick
    \/ \E k \in 1..MaxCheckNow : CheckNowReceived(k)
    \/ OperatorReply
    \/ OperatorOK

NextManual == Progress \/ Environment

\* Every operation the program awaits returns (page operations have
\* timeouts, requests are settled by their library) and every timer fires:
\* the program does not stay for ever where one of them is pending.  Nothing
\* is assumed of the operator: no message of theirs ever has to arrive.
SpecManual == InitManual /\ [][NextManual]_vars /\ WF_vars(Progress)

\* -------------------------------------------- the captcha wait's messages
\* Manual captcha resolution with messages of every kind arriving.
NextRelay ==
    \/ \E s \in Sessions : SessionStep(s)
    \/ \E inv \in pending : CloseDone(inv)
    \/ Startup
    \/ CronTick
    \/ \E sender \in Senders, text \in Incoming : Message(sender, text)

SpecRelay == InitManual /\ [][NextRelay]_vars

\* ------------------------------------------------------ up to the exit
\* Manual captcha resolution until a /shutdown or a signal ends the process:
\* nothing runs once the process has exited.
NextShutdown ==
    \/ /\ shutdown # "exited"
       /\ \/ \E s \in Sessions : SessionStep(s)
          \/ \E inv \in pending \ {ShutdownCall} : CloseDone(inv)
          \/ \E c \in Sessions : IntervalFires(c, TickBudget, SessionInFlight)
          \/ \E c \in Sessions : TickStep(c, Delivered)
          \/ Startup
          \/ CronTick
          \/ OperatorReply
          \/ OperatorOK
    \/ ShutdownReceived
    \/ ShutdownMsgDone
    \/ SignalReceived
    \/ ShutdownCloseDone

SpecShutdown == InitManual /\ [][NextShutdown]_vars

\* ------------------------------------------------ a refreshed captcha
\* Manual captcha resolution with one /another.
NextAnother ==
    \/ \E s \in Sessions : SessionStep(s)
    \/ \E inv \in pending : CloseDone(inv)
    \/ Startup
    \/ CronTick
    \/ OperatorReply
    \/ AnotherReceived
    \/ AnotherMsgDone
    \/ AnotherReloadDone

SpecAnother == InitManual /\ [][NextAnother]_vars

\* ------------------------------------------------------ the logging toggle
\* Manual captcha resolution and campaigns while the operator toggles the
\* logging.
NextLog ==
    \/ \E s \in Sessions : SessionStep(s)
    \/ \E inv \in pending : CloseDone(inv)
    \/ \E c \in Sessions : IntervalFires(c, TickBudget, SessionInFlight)
    \/ \E c \in Sessions : TickStep(c, Delivered)
    \/ Startup
    \/ CronTick
    \/ OperatorReply
    \/ OperatorOK
    \/ ToggleReceived
    \/ ToggleMsgDone

SpecLog == InitManual /\ [][NextLog]_vars

\* ------------------------------------------------ closes that may fail
\* The sessions with the manual captcha, their triggers and the operator's
\* replies, any close of a browser being free to throw.
NextRelease ==
    \/ Startup
    \/ CronTick
    \/ \E s \in Sessions : SessionStep(s)
    \/ \E inv \in pending : CloseEnds(inv, MayNotClose)
    \/ OperatorReply

SpecRelease == InitManual /\ [][NextRelease]_vars

\* ------------------------------------------------- who may command
\* A test that lets every sender through.
fromAnySender(sender) == TRUE

\* The test every command handler begins with (lines 978, 1019, 1053, 1086,
\* 1098): String(msg.chat.id) !== CHAT_ID makes it return.
fromOperator(sender) == sender = "operator"

\* A command of a sender the handler turns away: nothing is done.
Dismissed == intruded' = "command" /\ UNCHANGED <<world, window, timeReply, heard,
    shutdown, another, toggleSent, enableAntiCaptcha, checknow, startup>>

\* The commands as they arrive from a sender.
CheckNowFrom(sender, k) ==
    IF fromOperator(sender) THEN CheckNowReceived(k) ELSE Dismissed
StartAtFrom(sender, hour, minute) ==
    IF fromOperator(sender) THEN StartAt(hour, minute) ELSE Dismissed
StopAtFrom(sender, hour, minute) ==
    IF fromOperator(sender) THEN StopAt(hour, minute) ELSE Dismissed
ToggleFrom(sender) ==
    IF fromOperator(sender) THEN ToggleReceived ELSE Dismissed
ShutdownFrom(sender) ==
    IF fromOperator(sender) THEN ShutdownReceived ELSE Dismissed

\* The senders that are not the operator.
Strangers == Senders \ {"operator"}

\* The times the commands carry here: one in range, one out of range.
FewHours == {6, 24}
FewMinutes == {30}

\* The texts the messages carry here: an OK, a captcha answer, and one that
\* is neither.
FewTexts == {<<"o", "K">>, <<"7">>, <<"/">>}

\* Sessions with the manual captcha; messages arrive from the operator and
\* from strangers, commands from strangers only.
NextForeign ==
    \/ \E s \in Sessions : SessionStep(s)
    \/ \E inv \in pending : CloseDone(inv)
    \/ Startup
    \/ CronTick
    \/ \E sender \in Senders, text \in FewTexts : Message(sender, text)
    \/ \E sender \in Strangers, k \in 1..MaxCheckNow : CheckNowFrom(sender, k)
    \/ \E sender \in Strangers, hour \in FewHours, minute \in FewMinutes :
          StartAtFrom(sender, hour, minute)
    \/ \E sender \in Strangers, hour \in FewHours, minute \in FewMinutes :
          StopAtFrom(sender, hour, minute)
    \/ \E sender \in Strangers : ToggleFrom(sender)
    \/ \E sender \in Strangers : ShutdownFrom(sender)

SpecForeign == InitManual /\ [][NextForeign]_vars

\* ------------------------------------------------- one campaign, alone
\* A session has found an appointment and called notifyAvailable (lines
\* 584-665): the first sendAllNotifications call is in flight, the interval
\* timer and the stopHandler are registered, runCheck awaits the campaign.
\* The operator never answers; no trigger fires.
InitCampaign ==
    /\ state = [InitialState EXCEPT !.isRunning = TRUE, !.browser = 1,
                                    !.page = 1, !.currentAbortController = 1,
                                    !.notifyAvailableResolver = 1,
                                    !.spamInterval = 1]
    /\ window = InitialWindow
    /\ timeReply = "none"
    /\ heard = "idle"
    /\ intruded = "none"
    /\ shutdown = "none"
    /\ another = <<"none", Null>>
    /\ toggleSent = <<"none", 0>>
    /\ enableAntiCaptcha \in BOOLEAN
    /\ pc = [s \in Sessions |-> IF s = 1 THEN "escalate"
                             ELSE IF s <= SpecSessions THEN "idle" ELSE "done"]
    /\ captchaAttempts = [s \in Sessions |-> 0]
    /\ aborted = [s \in Sessions |-> FALSE]
    /\ abortListeners = [s \in Sessions |-> IF s = 1 THEN {"runCheck"} ELSE {}]
    /\ target = [s \in Sessions |-> Null]
    /\ browsers = [s \in Sessions |->
                     IF s = 1 THEN [status |-> "open", closeCalls |-> 0]
                     ELSE [status |-> "none", closeCalls |-> 0]]
    /\ pending = {}
    /\ captchaHandlers = {}
    /\ stopHandlers = {1}
    /\ timers = {1}
    /\ notificationCount = [s \in Sessions |-> 0]
    /\ emailCount = [s \in Sessions |-> 0]
    /\ inflight = [s \in Sessions |->
                     IF s = 1 THEN [chat |-> 1, push |-> 0, email |-> 0] ELSE NoCalls]
    /\ checknow = [k \in 1..MaxCheckNow |-> "idle"]
    /\ startup = TRUE
    /\ resolveCalls = [s \in Sessions |-> 0]
    /\ alertedAfterCancel = [s \in Sessions |-> FALSE]
    /\ cnVictim = [k \in 1..MaxCheckNow |-> Null]
    /\ confirmations = [s \in Sessions |-> 0]
    /\ report = [s \in Sessions |-> 0]
    /\ unconfirmed = {}
    /\ sendFailed = [s \in Sessions |-> FALSE]
    /\ mistaken = {}
    /\ closeFailed = {}

\* The timer fires as long as it is set: the cap on the ticks started is
\* never what stops it.
CampaignTicks == MAX_NOTIFICATIONS + MaxInFlight + 1

NextCampaign ==
    \/ \E c \in Sessions : IntervalFires(c, CampaignTicks, MaxInFlight)
    \/ \E c \in Sessions : TickStep(c, Unreliable)
    \/ \E inv \in pending : CloseDone(inv)

SpecCampaign == InitCampaign /\ [][NextCampaign]_vars

\* ----------------------------------------- a campaign and what preempts it
\* The campaign of InitCampaign under manual captcha resolution, with the
\* triggers, the operator and the session a /checknow starts.
InitPreempt == InitCampaign /\ ~enableAntiCaptcha

NextPreempt ==
    \/ Progress
    \/ CronTick
    \/ \E k \in 1..MaxCheckNow : CheckNowReceived(k)
    \/ OperatorReply
    \/ OperatorOK

SpecPreempt == InitPreempt /\ [][NextPreempt]_vars /\ WF_vars(Progress)

\* ------------------------------------------------- overlapping sessions
\* A state Spec reaches: session 1, cancelled by /checknow while its page was
\* loading, has failed and ended, and its cleanup has reset isRunning and the
\* shared handles while session 2, which /checknow started, is evaluating the
\* current month (manual captcha).  The guard is open, so the next cron tick
\* starts one more session next to session 2.
InitOverlap ==
    /\ state = InitialState
    /\ window = InitialWindow
    /\ timeReply = "none"
    /\ heard = "idle"
    /\ intruded = "none"
    /\ shutdown = "none"
    /\ another = <<"none", Null>>
    /\ toggleSent = <<"none", 0>>
    /\ enableAntiCaptcha = FALSE
    /\ pc = [s \in Sessions |-> IF s = 1 THEN "done"
                             ELSE IF s = 2 THEN "eval1" ELSE "idle"]
    /\ captchaAttempts = [s \in Sessions |-> 0]
    /\ aborted = [s \in Sessions |-> FALSE]
    /\ abortListeners = [s \in Sessions |-> IF s = 2 THEN {"runCheck"} ELSE {}]
    /\ target = [s \in Sessions |-> IF s = 2 THEN 2 ELSE Null]
    /\ browsers = [s \in Sessions |->
                     IF s = 2 THEN [status |-> "open", closeCalls |-> 0]
                     ELSE [status |-> "none", closeCalls |-> 0]]
    /\ pending = {}
    /\ captchaHandlers = {}
    /\ stopHandlers = {}
    /\ timers = {}
    /\ notificationCount = [s \in Sessions |-> 0]
    /\ emailCount = [s \in Sessions |-> 0]
    /\ inflight = [s \in Sessions |-> NoCalls]
    /\ checknow = [k \in 1..MaxCheckNow |-> "done"]
    /\ startup = TRUE
    /\ resolveCalls = [s \in Sessions |-> 0]
    /\ alertedAfterCancel = [s \in Sessions |-> FALSE]
    /\ cnVictim = [k \in 1..MaxCheckNow |-> Null]
    /\ confirmations = [s \in Sessions |-> 0]
    /\ report = [s \in Sessions |-> 0]
    /\ unconfirmed = {}
    /\ sendFailed = [s \in Sessions |-> FALSE]
    /\ mistaken = {}
    /\ closeFailed = {}

NextOverlap ==
    \/ \E s \in Sessions : SessionStep(s)
    \/ \E inv \in pending : CloseDone(inv)
    \/ \E c \in Sessions : IntervalFires(c, TickBudget, SessionInFlight)
    \/ \E c \in Sessions : TickStep(c, Delivered)
    \/ CronTick
    \/ OperatorReply
    \/ OperatorOK

SpecOverlap == InitOverlap /\ [][NextOverlap]_vars

\* ------------------------------------------------------------ properties
\* The sessions between the start of runCheck and the end of its cleanup.
Active == {s \in Sessions : pc[s] \notin {"idle", "done"}}

\* The chat messages a campaign has sent: one per sendAllNotifications call
\* started.
ChatSent(c) == notificationCount[c] + Calls(inflight[c])

\* The emails a campaign has sent: those counted and those on their way.
EmailsSent(c) == emailCount[c] + inflight[c].email

\* C1: at most one check session is in a non-terminal state at any time.
C1_SingleFlight == Cardinality(Active) <= 1

\* C2: once a /checknow that arrived while a session was solving the captcha
\* has a new session begun, the session it found has reached its terminal
\* state (the note of it is dropped when it returns).
C2_TeardownBeforeNext ==
    \A k \in 1..MaxCheckNow :
        cnVictim[k] # Null => Active \subseteq {cnVictim[k]}

\* C3: in the step in which a session's final cleanup completes, the browser,
\* the page, the abort controller, the captcha listener, the campaign timer
\* and the campaign resolver are all cleared and isRunning is false.
C3_CleanupClearsState ==
    [][\A s \in Sessions :
           (pc[s] # "done" /\ pc'[s] = "done")
           => /\ state'.browser = Null
              /\ state'.page = Null
              /\ state'.currentAbortController = Null
              /\ state'.captchaMessageListener = Null
              /\ state'.spamInterval = Null
              /\ state'.notifyAvailableResolver = Null
              /\ ~state'.isRunning]_vars

C5_NoListenerAfterCancel ==
    \A s \in Sessions : aborted[s] => s \notin captchaHandlers

\* C6: no session initiates an operator-facing message in a run in which it
\* has taken a branch forced by its cancellation.
C6_SilentCancel == \A s \in Sessions : ~alertedAfterCancel[s]

\* C7: a campaign that was never acknowledged and has ended, its session in
\* its final cleanup and no call in flight, has sent exactly
\* MAX_NOTIFICATIONS chat and push notifications and exactly 5 emails.
C7_ExactCampaign ==
    \A c \in Sessions :
        (pc[c] = "cleaning" /\ c \notin timers /\ inflight[c] = NoCalls)
        => /\ notificationCount[c] = MAX_NOTIFICATIONS
           /\ emailCount[c] = 5

\* C8: in every state of a campaign at most MAX_NOTIFICATIONS chat messages
\* and at most MAX_EMAIL_NOTIFICATIONS emails were sent, and the emails are
\* one per EMAIL_NOTIFICATION_FREQUENCY ticks: the k-th is not sent before
\* tick k * EMAIL_NOTIFICATION_FREQUENCY.
C8_CampaignCaps ==
    \A c \in Sessions :
        /\ ChatSent(c) <= MAX_NOTIFICATIONS
        /\ EmailsSent(c) <= MAX_EMAIL_NOTIFICATIONS
        /\ EmailsSent(c) * EMAIL_NOTIFICATION_FREQUENCY <= ChatSent(c)

\* C9: the OKs sent during one campaign are answered by at most one
\* "stopping alerts" confirmation.
C9_OneConfirmation == \A c \in Sessions : confirmations[c] <= 1

\* C10: the close operation of a browser is invoked at most once.
C10_CloseOnce == \A b \in Sessions : browsers[b].closeCalls <= 1

\* C11: a session whose cancellation was requested eventually ends its final
\* cleanup, whatever the operator does or does not send.
C11_CancelledEnds == \A s \in Sessions : aborted[s] ~> pc[s] = "done"

\* C12: every started session eventually ends its final cleanup, also when
\* the operator never sends a message: a session that is neither cancelled
\* nor running its campaign does not stay where it is for ever.
C12_SessionEnds ==
    \A s \in Sessions :
        (pc[s] \notin {"idle", "done"} /\ ~aborted[s])
        ~> (pc[s] \in {"done", "escalate"} \/ aborted[s])

\* C13: a session cancelled while it awaits its campaign gets past that
\* await and into its final cleanup, no acknowledgment being needed.
C13_PreemptedCampaignResolves ==
    \A s \in Sessions :
        (aborted[s] /\ pc[s] = "escalate") ~> (pc[s] \in {"cleaning", "done"})

\* A cancelled session is in its final cleanup, its campaign neither
\* acknowledged nor at its cap.
C13_Witness ==
    \E s \in Sessions :
        /\ aborted[s] /\ pc[s] = "cleaning"
        /\ confirmations[s] = 0
        /\ notificationCount[s] < MAX_NOTIFICATIONS

\* C14: once the timer of a campaign is cleared (acknowledgment, cap,
\* cleanup or /checknow), no push notification and no email of that campaign
\* is sent any more, those of a sendAllNotifications call in flight included.
C14_NoSendAfterEnd ==
    [][\A c \in Sessions :
          (c \notin timers /\ Calls(inflight[c]) > 0)
          => /\ inflight'[c].push <= inflight[c].push
             /\ inflight'[c].email <= inflight[c].email]_vars

\* C15: a session whose evaluation ends while a campaign is active, and which
\* is not cancelled, either goes on to the next month or calls
\* notifyAvailable: that call starts no timer and no acknowledgment listener,
\* and the session does not get past its await in that run, the campaign
\* being still active when the call is made.
C15_IdempotentStart ==
    [][\A s \in Sessions :
          (pc[s] \in {"eval1", "eval2"} /\ pc'[s] # pc[s]
             /\ ~aborted[s] /\ state.spamInterval # Null)
          => /\ timers' \subseteq timers
             /\ stopHandlers' \subseteq stopHandlers
             /\ pc'[s] \notin {"cleaning", "done"}]_vars

\* C16: no session awaits a campaign it started after an evaluation that
\* failed to execute.
C16_CampaignOnlyIfConfirmed ==
    \A s \in Sessions : pc[s] = "escalate" => s \notin unconfirmed

\* C17: a session reporting its terminal failure has delivered exactly one
\* operator message for it, the console.warn and console.error forwards
\* counted.
C17_OneMessagePerFailure ==
    \A s \in Sessions : pc[s] = "errMsg" => report[s] = 1

\* C18: a session reporting a failed captcha attempt (resolver failure of
\* either strategy, or wrong answer) has delivered at most one operator
\* message for it, the console.warn and console.error forwards counted.
C18_OneWarningPerAttempt ==
    \A s \in Sessions :
        pc[s] \in {"ac_failMsg", "mc_warn", "mc_reload", "wrongMsg"}
        => report[s] <= 1

WindowStart == window.workingStartHour * 60 + window.workingStartMinute
WindowEnd == window.workingEndHour * 60 + window.workingEndMinute

\* C19: for every window and every minute of the day, the gate is open, when
\* start <= end, exactly from start up to but excluding end, and, when
\* start > end, exactly from start on or before end.
C19_GateMatchesWindow ==
    \A now \in Clock :
        isWithinWorkingHours(now)
        <=> IF WindowStart <= WindowEnd
            THEN WindowStart <= now /\ now < WindowEnd
            ELSE now >= WindowStart \/ now < WindowEnd

\* The window is 22:00 to 06:00 and a check was started through the gate,
\* which is open at 23:00 and at 05:59 and closed at 06:00 and at 21:59.
C19_Witness ==
    /\ window = [workingStartHour |-> 22, workingStartMinute |-> 0,
                 workingEndHour |-> 6, workingEndMinute |-> 0]
    /\ state.isRunning
    /\ isWithinWorkingHours(23 * 60) /\ isWithinWorkingHours(5 * 60 + 59)
    /\ ~isWithinWorkingHours(6 * 60) /\ ~isWithinWorkingHours(21 * 60 + 59)

\* C20: with a window whose start equals its end, the gate is open at every
\* minute of the day.
C20_EqualWindowAlwaysOpen ==
    WindowStart = WindowEnd => \A now \in Clock : isWithinWorkingHours(now)

\* The gate is closed at every time the triggers are tried at.
GateClosed == \A now \in Times : ~isWithinWorkingHours(now)

\* C21: a step that starts a session is a step of /checknow, or the gate is
\* open at a time of the trigger; with the gate closed a startup check or a
\* cron tick starts nothing, and startCheckProcess(true) starts a session
\* whatever the window is.
C21_GateRespected ==
    [][/\ \A s \in Sessions :
            (pc[s] = "idle" /\ pc'[s] = "launch")
            => (checknow' # checknow \/ ~GateClosed)
       /\ \A now \in Times :
            /\ ~isWithinWorkingHours(now)
               => startCheckProcess(World(Null), FALSE, now) = World(Null)
            /\ (~state.isRunning /\ FreeSessions # {})
               => startCheckProcess(World(Null), TRUE, now).pc[NewSession]
                  = "launch"]_vars

\* /checknow has started a session, the only one, under a window whose gate
\* is closed, after a startup check that started none.
C21_Witness ==
    /\ GateClosed
    /\ startup
    /\ \E k \in 1..MaxCheckNow : checknow[k] = "done"
    /\ \E s \in Sessions : pc[s] = "launch" /\ state.currentAbortController = s
    /\ \A s \in Sessions : pc[s] \in {"idle", "launch", "done"}

\* C22: a /startat or /stopat answered as invalid leaves the four window
\* fields as they were, and the stored hours stay within 0..23 and the stored
\* minutes within 0..59.
C22_WindowInRange ==
    [][/\ (timeReply' = "invalid" => window' = window)
       /\ \A hour \in HourInputs, minute \in MinuteInputs :
            (hour \notin 0..23 \/ minute \notin 0..59)
            => /\ StartAt(hour, minute) => timeReply' = "invalid"
               /\ StopAt(hour, minute) => timeReply' = "invalid"
       /\ window'.workingStartHour \in 0..23
       /\ window'.workingEndHour \in 0..23
       /\ window'.workingStartMinute \in 0..59
       /\ window'.workingEndMinute \in 0..59]_vars

\* The window was moved by the operator and the last command, out of range,
\* was answered as invalid.
C22_Witness ==
    /\ timeReply = "invalid"
    /\ window.workingStartHour # DEFAULT_WORKING_START_HOUR
    /\ window.workingEndMinute # DEFAULT_WORKING_END_MINUTE

\* C23: whatever send of a tick is awaited, its failure leaves everything,
\* the record of the failure apart, as its success does: the same channel is
\* attempted next, the tick is counted, the timer and the campaign go on and
\* no session moves.
C23_SendFailureTolerated ==
    \A c \in Sessions : \A stage \in {"chat", "push", "email"} :
        inflight[c][stage] > 0
        => LET F == tickStep(World(Null), c, stage, FALSE)
               S == tickStep(World(Null), c, stage, TRUE)
           IN  [F EXCEPT !.sendFailed = S.sendFailed] = S

\* A campaign goes on after a failed send: its timer runs, its session awaits
\* it, a tick was counted and a push is on its way.
C23_Witness ==
    \E c \in Sessions :
        /\ sendFailed[c]
        /\ c \in timers
        /\ pc[c] = "escalate"
        /\ notificationCount[c] >= 1
        /\ inflight[c].push > 0

C25_ShutdownReleases ==
    [][/\ shutdown' = "exited"
          => /\ \A s \in Sessions : pc'[s] \notin {"idle", "done"} => aborted'[s]
             /\ \A b \in Sessions : browsers'[b].status # "open"
             /\ timers' = {}
             /\ captchaHandlers' = {}
             /\ stopHandlers' = {}
       /\ shutdown # "none"
          => \A s \in Sessions : pc[s] = "idle" => pc'[s] = "idle"]_vars

\* C26: a session awaits a campaign only if the month it evaluated last, the
\* current one or else the next one, did not show the no-appointments text.
C26_CampaignIffMonthOpen ==
    \A s \in Sessions : pc[s] = "escalate" => s \notin mistaken

\* C27: once /another has been handled for a running check, that check is
\* still running: isRunning is true, its session has not returned, and its
\* browser and the page are still open.
C27_AnotherKeepsSession ==
    (another[1] \in {"reload", "done"} /\ another[2] # Null)
    => /\ state.isRunning
       /\ state.page # Null
       /\ pc[another[2]] \notin {"cleaning", "done"}
       /\ browsers[another[2]].status = "open"

\* C28: a warning and an error are forwarded whatever the toggle is; a
\* routine line is forwarded only with logging enabled, that of /toggle_log
\* itself included; and a step that changes the toggle changes nothing else
\* of the program.
C28_ToggleOnlyRoutine ==
    [][/\ consoleForwards(state, "warn") /\ consoleForwards(state, "error")
       /\ consoleForwards(state, "log") => state.isLoggingEnabled
       /\ (toggleSent' # toggleSent /\ toggleSent'[2] = 2)
          => state.isLoggingEnabled
       /\ state'.isLoggingEnabled # state.isLoggingEnabled
          => /\ [state' EXCEPT !.isLoggingEnabled = state.isLoggingEnabled]
                = state
             /\ UNCHANGED <<window, enableAntiCaptcha, pc, captchaAttempts,
                            aborted, abortListeners, target, browsers,
                            pending, captchaHandlers, stopHandlers, timers,
                            notificationCount, emailCount, inflight,
                            checknow, startup>>]_vars

\* Logging is enabled, the routine line of the /toggle_log that enabled it
\* was forwarded, and a session reports a terminal failure, its errors
\* forwarded.
C28_Witness ==
    /\ state.isLoggingEnabled
    /\ toggleSent = <<"done", 2>>
    /\ \E s \in Sessions : pc[s] = "errMsg" /\ report[s] = 3

\* C29: at most one captcha-reply listener and at most one acknowledgment
\* listener are registered, and a session that has returned has left none.
C29_NoDanglingListener ==
    /\ Cardinality(captchaHandlers) <= 1
    /\ Cardinality(stopHandlers) <= 1
    /\ \A s \in Sessions :
         pc[s] = "done" => s \notin captchaHandlers \cup stopHandlers

\* C30: a campaign runs only for a session that has reached its escalation,
\* and a call of cleanupResources made for a session, by its abort listener
\* or by its finally block, is under way only when the session is at no
\* other step.
C30_StepsInOrder ==
    /\ \A c \in timers : pc[c] \in {"escalate", "cleaning", "done"}
    /\ \A inv \in pending :
         inv[1] \in {"abort", "finally"} => pc[inv[2]] \in {"cleaning", "done"}

\* The session fields cleanupResources clears after the close.
Released(st) ==
    /\ st.browser = Null
    /\ st.page = Null
    /\ ~st.isWaitingForCaptcha
    /\ ~st.isRunning
    /\ st.currentAbortController = Null

\* C31: a call of cleanupResources that ends, its close having worked or
\* thrown or never been made (no browser launched), leaves browser, page,
\* both flags and the controller cleared; a session whose finally block
\* called it ends in that same step.
C31_CleanupResilient ==
    [][/\ \A inv \in pending : inv \notin pending' => Released(state')
       /\ \A s \in Sessions :
            (pc[s] # "done" /\ pc'[s] = "done") => Released(state')]_vars

\* A session has returned, the close made by its finally block having
\* thrown, and the session fields are cleared.
C31_Witness ==
    \E s \in Sessions :
        /\ <<"finally", s>> \in closeFailed
        /\ pc[s] = "done"
        /\ Released(state)

\* The awaits of solveCaptcha (lines 459-545).
SolvePCs == {"ac_create", "ac_sleep", "ac_poll", "ac_cancel"}

\* C32: a poll answered "not ready" or "processing" before the timeout leaves
\* the call polling, and a call whose task exists and which ends after its
\* cancellation ends in the request that tells the service of it.
C32_SolveEndsCleanly ==
    [][\A s \in Sessions :
          /\ (pc[s] = "ac_poll" /\ ~aborted[s])
                => PollHead(World(s), FALSE).pc[s] = "ac_sleep"
          /\ (/\ pc[s] \in SolvePCs \ {"ac_create"}
              /\ pc'[s] \notin SolvePCs
              /\ aborted[s])
                => pc[s] = "ac_cancel"]_vars

\* C33: the waiting flag is set, or a captcha-reply listener is registered,
\* only while isRunning is true.
C33_WaitInsideSession ==
    (state.isWaitingForCaptcha \/ captchaHandlers # {}) => state.isRunning

\* In this step a call of cleanupResources made for session s, by its finally
\* block or by its abort listener, starts or ends.
Cleans(s) ==
    \/ pc[s] \notin {"cleaning", "done"} /\ pc'[s] \in {"cleaning", "done"}
    \/ \E kind \in {"abort", "finally"} :
          (<<kind, s>> \in pending) # (<<kind, s>> \in pending')

\* C34: a step in which a cleanup of one session starts or ends, and none of
\* a newer session that is under way, leaves the newer session's browser
\* open, its controller installed and isRunning set.
C34_CleanupOwnSession ==
    [][\A s, n \in Sessions :
          (/\ s < n
           /\ Cleans(s)
           /\ ~Cleans(n)
           /\ pc[n] \notin {"idle", "cleaning", "done"})
          => /\ browsers[n].status = "open" => browsers'[n].status = "open"
             /\ state.currentAbortController = n
                  => state'.currentAbortController = n
             /\ state.isRunning => state'.isRunning]_vars

\* C35: a browser that is open is the one state.browser holds, so that a
\* cleanup can still close it.
C35_NoBrowserDropped ==
    \A b \in Sessions : browsers[b].status = "open" => state.browser = b

\* C36: while isRunning is false, state.browser and state.page are null.
C36_IdleHoldsNothing ==
    ~state.isRunning => state.browser = Null /\ state.page = Null

\* C38: while isRunning is true, state.currentAbortController holds a
\* controller.
C38_RunningHasController ==
    state.isRunning => state.currentAbortController # Null

\* A second session is running under its own controller after the first has
\* ended its cleanup, which cleared the controller and the flag together.
C38_Witness ==
    /\ pc[1] = "done"
    /\ pc[2] \notin {"idle", "cleaning", "done"}
    /\ state.isRunning
    /\ state.currentAbortController = 2

\* A message or a command of a stranger is handled in this step.
StrangerStep ==
    \E sender \in Strangers :
        \/ \E text \in FewTexts : Message(sender, text)
        \/ \E k \in 1..MaxCheckNow : CheckNowFrom(sender, k)
        \/ \E hour \in FewHours, minute \in FewMinutes :
              StartAtFrom(sender, hour, minute) \/ StopAtFrom(sender, hour, minute)
        \/ ToggleFrom(sender)
        \/ ShutdownFrom(sender)

\* C37: a step that handles a message or a command of a stranger changes
\* nothing of the program: no field of state, no session, no listener, no
\* timer, no window, and it starts no answer.
C37_StrangersIgnored ==
    [][StrangerStep
         => UNCHANGED <<world, window, timeReply, shutdown, another,
                        toggleSent, enableAntiCaptcha, checknow, startup>>]_vars

\* A stranger's command arrived while a session waits for the operator's
\* captcha reply, its listener registered.
C37_Witness ==
    \E s \in Sessions :
        /\ pc[s] = "gc_reply"
        /\ s \in captchaHandlers
        /\ intruded = "command"

====
